---- MODULE Spec2Model ----
(***************************************************************************)
(* The accounts application: the CustomUser table, CustomUserManager       *)
(* (create_user, create_superuser), the admin's creation and change forms  *)
(* and the login flow that stamps last_login.                               *)
(*                                                                         *)
(* Text values are sequences of one-character strings, so that case        *)
(* folding, the e-mail split at "@" and the phone pattern are computed     *)
(* character by character.                                                 *)
(***************************************************************************)
EXTENDS Integers, Sequences, FiniteSets, TLC

VARIABLES
    users,     \* the CustomUser table: a sequence of rows, the index is the pk
    now,       \* the value timezone.now() returns to the next save
    outcome,   \* the last call: its operation and what it returned or raised
    supplied   \* per pk: the raw password handed to the call that created the row

vars == <<users, now, outcome, supplied>>

\* The number of saves (inserts and updates) a run performs.
MaxClock == 2

-----------------------------------------------------------------------------
(* Text *)

\* Python's None, as a value no text equals.
None == <<"None">>

Upper == <<"A", "B">>
LowerOf == <<"a", "b">>
Letters == {"a", "b", "i", "o", "n", "m", "x", "y", "A", "B"}
Digits == {"0", "1", "2", "3", "4", "5", "6", "7", "8", "9"}

\* str.lower() on one character.
LowerChar(c) ==
    IF \E i \in 1..Len(Upper) : Upper[i] = c
    THEN LowerOf[CHOOSE i \in 1..Len(Upper) : Upper[i] = c]
    ELSE c

\* str.lower()
Lower(s) == [i \in 1..Len(s) |-> LowerChar(s[i])]

\* str.strip()
RECURSIVE Strip(_)
Strip(s) ==
    IF s = <<>> THEN s
    ELSE IF Head(s) = " " THEN Strip(Tail(s))
    ELSE IF s[Len(s)] = " " THEN Strip(SubSeq(s, 1, Len(s) - 1))
    ELSE s

\* The position of the last "@" of s, 0 when s has none (str.rsplit("@", 1)).
LastAt(s) ==
    IF \E i \in 1..Len(s) : s[i] = "@"
    THEN CHOOSE i \in 1..Len(s) : s[i] = "@" /\ \A j \in (i+1)..Len(s) : s[j] # "@"
    ELSE 0

\* Python truthiness of a text argument: None and "" are falsy.
Truthy(s) == s # None /\ s # <<>>

\* normalize_email without the case folding of the domain part.
normalize_email_verbatim(email) ==
    IF Truthy(email) THEN Strip(email) ELSE <<>>

\* BaseUserManager.normalize_email: lowercase the domain part, keep the local part.
normalize_email(email) ==
    LET e == IF Truthy(email) THEN email ELSE <<>>
        t == Strip(e)
        k == LastAt(t)
    IN  IF k = 0 THEN e
        ELSE SubSeq(t, 1, k - 1) \o <<"@">> \o Lower(SubSeq(t, k + 1, Len(t)))

-----------------------------------------------------------------------------
(* Password hashing *)

\* The salted one-way digest of a raw password, as a term of the salt and the password.
Digest(raw, salt) == <<"#", salt>> \o raw

\* make_password: algorithm$salt$digest, or an unusable value for None.
make_password(raw, salt) ==
    IF raw = None THEN <<"!", salt>>
    ELSE <<"pbkdf2_sha256", "$", salt, "$">> \o Digest(raw, salt)

is_password_usable(encoded) == encoded # <<>> /\ Head(encoded) # "!"

\* check_password: re-encode the raw password with the stored salt and compare.
check_password(raw, encoded) ==
    /\ raw # None
    /\ is_password_usable(encoded)
    /\ Len(encoded) >= 4
    /\ encoded[1] = "pbkdf2_sha256"
    /\ encoded = make_password(raw, encoded[3])

\* set_password that stores the raw password.
set_password_raw(user, raw, salt) == [user EXCEPT !.password = raw]

\* AbstractBaseUser.set_password
set_password(user, raw, salt) == [user EXCEPT !.password = make_password(raw, salt)]

-----------------------------------------------------------------------------
(* The CustomUser model *)

Field(kwargs, k, default) == IF k \in DOMAIN kwargs THEN kwargs[k] ELSE default

\* CustomUser(email=..., **extra_fields): an unsaved instance with the field defaults.
\* last_login 0 stands for "not yet set".
CustomUser(email, extra_fields, t) ==
    [ email        |-> email,
      name         |-> Field(extra_fields, "name", <<>>),
      phone        |-> Field(extra_fields, "phone", <<>>),
      is_staff     |-> Field(extra_fields, "is_staff", FALSE),
      is_active    |-> Field(extra_fields, "is_active", TRUE),
      is_superuser |-> Field(extra_fields, "is_superuser", FALSE),
      date_joined  |-> t,
      last_login   |-> 0,
      password     |-> <<>> ]

\* The unique=True columns: the pks of the rows other than pk that hold the value.
EmailTaken(db, email, pk) == \E i \in 1..Len(db) : i # pk /\ db[i].email = email
PhoneTaken(db, phone, pk) == \E i \in 1..Len(db) : i # pk /\ db[i].phone = phone

\* save without the unique constraints.
save_unconstrained(db, user, pk, t) ==
    LET row == [user EXCEPT !.last_login = t]
    IN  IF pk = 0
        THEN [status |-> "ok", db |-> Append(db, row), pk |-> Len(db) + 1, errors |-> {}]
        ELSE [status |-> "ok", db |-> [db EXCEPT ![pk] = row], pk |-> pk, errors |-> {}]

\* Model.save(): auto_now stamps last_login, then INSERT (pk = 0) or UPDATE; the
\* unique constraints of email and phone reject the statement with IntegrityError.
save(db, user, pk, t) ==
    LET row == [user EXCEPT !.last_login = t]
    IN  IF EmailTaken(db, row.email, pk) \/ PhoneTaken(db, row.phone, pk)
        THEN [status |-> "IntegrityError", db |-> db, pk |-> 0, errors |-> {}]
        ELSE IF pk = 0
        THEN [status |-> "ok", db |-> Append(db, row), pk |-> Len(db) + 1, errors |-> {}]
        ELSE [status |-> "ok", db |-> [db EXCEPT ![pk] = row], pk |-> pk, errors |-> {}]

-----------------------------------------------------------------------------
(* CustomUserManager *)

\* create_user without the check of the email.
create_user_any_email(db, t, email, password, extra_fields, salt) ==
    LET e == normalize_email(email)
        user == set_password(CustomUser(e, extra_fields, t), password, salt)
    IN  save(db, user, 0, t)

create_user(db, t, email, password, extra_fields, salt) ==
    IF ~Truthy(email)
    THEN [status |-> "ValueError", db |-> db, pk |-> 0, errors |-> {"Email must be set"}]
    ELSE LET e == normalize_email(email)
             user == set_password(CustomUser(e, extra_fields, t), password, salt)
         IN  save(db, user, 0, t)

\* dict.setdefault
setdefault(d, k, v) == IF k \in DOMAIN d THEN d ELSE (k :> v) @@ d

SuperuserFields(extra_fields) ==
    setdefault(setdefault(setdefault(extra_fields,
        "is_staff", TRUE), "is_superuser", TRUE), "is_active", TRUE)

\* create_superuser without the checks of the flags.
create_superuser_unchecked(db, t, email, password, extra_fields, salt) ==
    create_user(db, t, email, password, SuperuserFields(extra_fields), salt)

\* create_superuser that checks the defaulted flags and passes on the caller's.
create_superuser_callers_fields(db, t, email, password, extra_fields, salt) ==
    LET extra == SuperuserFields(extra_fields)
    IN  IF extra["is_staff"] # TRUE
        THEN [status |-> "ValueError", db |-> db, pk |-> 0,
              errors |-> {"Superuser must have is_staff=True."}]
        ELSE IF extra["is_superuser"] # TRUE
        THEN [status |-> "ValueError", db |-> db, pk |-> 0,
              errors |-> {"Superuser must have is_superuser=True."}]
        ELSE create_user(db, t, email, password, extra_fields, salt)

create_superuser(db, t, email, password, extra_fields, salt) ==
    LET extra == SuperuserFields(extra_fields)
    IN  IF extra["is_staff"] # TRUE
        THEN [status |-> "ValueError", db |-> db, pk |-> 0,
              errors |-> {"Superuser must have is_staff=True."}]
        ELSE IF extra["is_superuser"] # TRUE
        THEN [status |-> "ValueError", db |-> db, pk |-> 0,
              errors |-> {"Superuser must have is_superuser=True."}]
        ELSE create_user(db, t, email, password, extra, salt)

-----------------------------------------------------------------------------
(* Field validation of the forms *)

\* The phone pattern with eight digits after 09.
RegexValidator_8digits(s) ==
    /\ Len(s) = 10
    /\ s[1] = "0"
    /\ s[2] = "9"
    /\ \A i \in 3..10 : s[i] \in Digits

\* RegexValidator(r'^09\d{9}$') of CustomUser.phone
RegexValidator(s) ==
    /\ Len(s) = 11
    /\ s[1] = "0"
    /\ s[2] = "9"
    /\ \A i \in 3..11 : s[i] \in Digits

\* CharField(max_length=11)
MaxLengthValidator(s) == Len(s) <= 11

\* The pieces of s between the dots.
RECURSIVE SplitDots(_)
SplitDots(s) ==
    IF \A i \in 1..Len(s) : s[i] # "."
    THEN <<s>>
    ELSE LET k == CHOOSE i \in 1..Len(s) : s[i] = "." /\ \A j \in 1..(i-1) : s[j] # "."
         IN  <<SubSeq(s, 1, k - 1)>> \o SplitDots(SubSeq(s, k + 1, Len(s)))

IsWord(s) == s # <<>> /\ \A i \in 1..Len(s) : s[i] \in Letters

\* EmailValidator of models.EmailField, on texts of letters, dots and "@": a dot-atom
\* before the last "@", and after it labels ending in a top-level label of two
\* letters or more.
EmailValidator(s) ==
    LET k == LastAt(s)
        user_part == SplitDots(SubSeq(s, 1, k - 1))
        domain_part == SplitDots(SubSeq(s, k + 1, Len(s)))
    IN  /\ k > 0
        /\ \A i \in 1..Len(user_part) : IsWord(user_part[i])
        /\ Len(domain_part) >= 2
        /\ \A i \in 1..Len(domain_part) : IsWord(domain_part[i])
        /\ Len(domain_part[Len(domain_part)]) >= 2

\* The fields of a submitted model form that fail: required, the field's
\* validators, then validate_unique against the rows other than pk.
ModelFieldErrors(db, data, pk) ==
    LET email == Strip(data.email)
        name == Strip(data.name)
        phone == Strip(data.phone)
    IN  {f \in {"email"} :
            \/ email = <<>>
            \/ ~EmailValidator(email)
            \/ EmailTaken(db, email, pk)}
        \cup {f \in {"name"} : name = <<>>}
        \cup {f \in {"phone"} :
            \/ phone = <<>>
            \/ ~MaxLengthValidator(phone)
            \/ ~RegexValidator(phone)
            \/ PhoneTaken(db, phone, pk)}

\* UserCreationForm: both passwords are required and must match.
PasswordErrors(data) ==
    {f \in {"password1"} : data.password1 = <<>>}
    \cup {f \in {"password2"} :
            data.password2 = <<>> \/ data.password1 # data.password2}

-----------------------------------------------------------------------------
(* forms.py *)

\* CustomUserCreationForm(data).save(commit)
CustomUserCreationForm_save(db, t, data, commit, salt) ==
    LET errors == ModelFieldErrors(db, data, 0) \cup PasswordErrors(data)
        built == CustomUser(Strip(data.email), <<>>, t)
        hashed == set_password(built, data.password1, salt)
        user == [hashed EXCEPT !.name = Strip(data.name), !.phone = Strip(data.phone)]
    IN  IF errors # {}
        THEN [status |-> "invalid", db |-> db, pk |-> 0, errors |-> errors]
        ELSE IF commit
        THEN save(db, user, 0, t)
        ELSE [status |-> "ok", db |-> db, pk |-> 0, errors |-> {}]

\* A change form that lower-cases the email it writes.
CustomUserChangeForm_save_lowercased(db, t, pk, data) ==
    LET errors == ModelFieldErrors(db, data, pk)
        user == [db[pk] EXCEPT !.email = Lower(Strip(data.email)),
                               !.name = Strip(data.name),
                               !.phone = Strip(data.phone),
                               !.is_active = data.is_active,
                               !.is_staff = data.is_staff,
                               !.is_superuser = data.is_superuser]
    IN  IF errors # {}
        THEN [status |-> "invalid", db |-> db, pk |-> 0, errors |-> errors]
        ELSE save(db, user, pk, t)

\* CustomUserChangeForm(data, instance=users[pk]).save(): the fields of Meta.fields
\* are written onto the row; the password is read-only in this form.
CustomUserChangeForm_save(db, t, pk, data) ==
    LET errors == ModelFieldErrors(db, data, pk)
        user == [db[pk] EXCEPT !.email = Strip(data.email),
                               !.name = Strip(data.name),
                               !.phone = Strip(data.phone),
                               !.is_active = data.is_active,
                               !.is_staff = data.is_staff,
                               !.is_superuser = data.is_superuser]
    IN  IF errors # {}
        THEN [status |-> "invalid", db |-> db, pk |-> 0, errors |-> errors]
        ELSE save(db, user, pk, t)

-----------------------------------------------------------------------------
(* Login: authenticate by USERNAME_FIELD, then the user_logged_in handler *)

\* ModelBackend.authenticate followed by update_last_login, which saves
\* last_login alone.
login(db, t, email, password) ==
    LET found == {i \in 1..Len(db) : db[i].email = email}
    IN  IF found = {}
        THEN [status |-> "denied", db |-> db, pk |-> 0, errors |-> {}]
        ELSE LET pk == CHOOSE i \in found : TRUE
             IN  IF check_password(password, db[pk].password) /\ db[pk].is_active
                 THEN [status |-> "ok", db |-> [db EXCEPT ![pk].last_login = t],
                       pk |-> pk, errors |-> {}]
                 ELSE [status |-> "denied", db |-> db, pk |-> 0, errors |-> {}]

-----------------------------------------------------------------------------
(* Inputs *)

Email_ab == <<"a", "@", "b", ".", "i", "o">>
Email_Ab == <<"A", "@", "b", ".", "i", "o">>
Email_aB == <<"a", "@", "B", ".", "i", "o">>
Email_noat == <<"a", "b">>

EmailInputs == {None, <<>>, Email_ab, Email_Ab, Email_aB}

Pw_x == <<"x">>
Pw_y == <<"y">>

PasswordInputs == {Pw_x, None}

\* The salt the password hasher draws for a new hash.
Salts == {"s1"}

Phone1 == <<"0", "9", "1", "2", "3", "4", "5", "6", "7", "8", "9">>
Phone2 == <<"0", "9", "0", "0", "0", "0", "0", "0", "0", "0", "0">>
PhoneShort == <<"0", "9", "1", "2", "3", "4", "5", "6", "7", "8">>
PhoneNo09 == <<"1", "2", "3", "4", "5", "6", "7", "8", "9", "0", "1">>

Name_n == <<"n">>
Name_m == <<"m">>

\* The keyword arguments callers pass to create_user and create_superuser.
ExtraInputs ==
    { <<>>,
      [name |-> Name_n, phone |-> Phone1],
      [name |-> Name_n, phone |-> PhoneShort],
      [name |-> Name_n, phone |-> PhoneNo09],
      [name |-> Name_n, phone |-> Phone1, is_staff |-> FALSE],
      [name |-> Name_n, phone |-> Phone1, is_superuser |-> FALSE],
      [name |-> Name_n, phone |-> Phone2, is_active |-> FALSE] }

\* Every call of create_user or create_superuser over the inputs above: the
\* properties of a single call are stated over all of them.
ManagerInputs ==
    [email : EmailInputs, password : PasswordInputs, extra_fields : ExtraInputs]

Call(email, password, extra_fields) ==
    [email |-> email, password |-> password, extra_fields |-> extra_fields]

\* The calls of create_user the actions make.
UserCalls ==
    { Call(<<>>, Pw_x, [name |-> Name_n, phone |-> Phone1]),
      Call(Email_ab, Pw_x, <<>>),
      Call(Email_ab, Pw_x, [name |-> Name_n, phone |-> Phone1]),
      Call(Email_aB, Pw_x, [name |-> Name_n, phone |-> Phone2]),
      Call(Email_Ab, None, [name |-> Name_n, phone |-> Phone2]),
      Call(Email_Ab, Pw_x, [name |-> Name_n, phone |-> PhoneNo09]) }

\* The calls of create_superuser the actions make.
SuperuserCalls ==
    { Call(None, Pw_x, [name |-> Name_n, phone |-> Phone1]),
      Call(Email_ab, Pw_x, [name |-> Name_n, phone |-> Phone1]),
      Call(Email_aB, Pw_x, [name |-> Name_n, phone |-> Phone1, is_staff |-> FALSE]),
      Call(Email_ab, Pw_x, [name |-> Name_n, phone |-> Phone1, is_superuser |-> FALSE]),
      Call(Email_Ab, Pw_x, [name |-> Name_n, phone |-> Phone2, is_active |-> FALSE]) }

\* What the admin's add form posts.
CreationData(email, name, phone, password1, password2) ==
    [email |-> email, name |-> name, phone |-> phone,
     password1 |-> password1, password2 |-> password2]

CreationInputs ==
    { CreationData(e, n, p, Pw_x, p2) :
        e \in {Email_ab, Email_Ab, Email_aB, Email_noat},
        n \in {<<>>, Name_n},
        p \in {<<>>, Phone1, Phone2, PhoneShort, PhoneNo09},
        p2 \in {Pw_x, Pw_y} }

CreationCalls ==
    { CreationData(Email_ab, Name_n, Phone1, Pw_x, Pw_x),
      CreationData(Email_aB, Name_n, Phone2, Pw_x, Pw_x),
      CreationData(Email_Ab, Name_n, PhoneShort, Pw_x, Pw_x),
      CreationData(Email_Ab, Name_n, PhoneNo09, Pw_x, Pw_x),
      CreationData(Email_Ab, <<>>, Phone2, Pw_x, Pw_y),
      CreationData(Email_noat, Name_n, <<>>, Pw_x, Pw_x) }

\* What the admin's change form posts.
ChangeData(email, name, phone, is_active, is_staff, is_superuser) ==
    [email |-> email, name |-> name, phone |-> phone, is_active |-> is_active,
     is_staff |-> is_staff, is_superuser |-> is_superuser]

ChangeInputs ==
    { ChangeData(e, n, p, a, ~a, ~a) :
        e \in {Email_ab, Email_Ab, Email_aB, Email_noat},
        n \in {<<>>, Name_m},
        p \in {Phone1, Phone2, PhoneShort, PhoneNo09},
        a \in BOOLEAN }

ChangeCalls ==
    { ChangeData(Email_ab, Name_m, Phone1, TRUE, FALSE, FALSE),
      ChangeData(Email_ab, Name_m, Phone2, TRUE, FALSE, FALSE),
      ChangeData(Email_Ab, Name_m, Phone2, FALSE, TRUE, TRUE),
      ChangeData(Email_Ab, Name_m, PhoneShort, TRUE, FALSE, FALSE),
      ChangeData(Email_aB, <<>>, Phone1, FALSE, TRUE, TRUE) }

LoginInputs == [email : {Email_ab, Email_Ab, Email_aB}, password : {Pw_x, Pw_y}]

-----------------------------------------------------------------------------
(* Actions *)

NoCall == [op |-> "none", status |-> "ok", pk |-> 0, errors |-> {}, args |-> <<>>]

Init ==
    /\ users = <<>>
    /\ now = 1
    /\ outcome = NoCall
    /\ supplied = <<>>

\* The effect of a call with result r on the table and the clock: a save consumes
\* one tick of the clock, and a run performs MaxClock saves at most.
Commit(r, op, args, raw) ==
    /\ r.db # users => now <= MaxClock
    /\ users' = r.db
    /\ now' = IF r.db # users THEN now + 1 ELSE now
    /\ supplied' = IF Len(r.db) > Len(users) THEN Append(supplied, raw) ELSE supplied
    /\ outcome' = [op |-> op, status |-> r.status, pk |-> r.pk, errors |-> r.errors,
                   args |-> args]

CreateUser ==
    \E c \in UserCalls, salt \in Salts :
        Commit(create_user(users, now, c.email, c.password, c.extra_fields, salt),
               "create_user", c, c.password)

CreateSuperuser ==
    \E c \in SuperuserCalls, salt \in Salts :
        Commit(create_superuser(users, now, c.email, c.password, c.extra_fields, salt),
               "create_superuser", c, c.password)

CreationFormSave ==
    \E data \in CreationCalls, commit \in BOOLEAN, salt \in Salts :
        Commit(CustomUserCreationForm_save(users, now, data, commit, salt),
               "creation_form", [data |-> data, commit |-> commit], data.password1)

ChangeFormSave ==
    \E pk \in 1..Len(users), data \in ChangeCalls :
        Commit(CustomUserChangeForm_save(users, now, pk, data),
               "change_form", [data |-> data, instance |-> pk], None)

Login ==
    \E c \in LoginInputs :
        Commit(login(users, now, c.email, c.password), "login", c, None)

Next ==
    \/ CreateUser
    \/ CreateSuperuser
    \/ CreationFormSave
    \/ ChangeFormSave
    \/ Login

Spec == Init /\ [][Next]_vars

-----------------------------------------------------------------------------
(* Properties *)

Rows == 1..Len(users)

FlagKeys == {"is_staff", "is_superuser", "is_active"}

Explicitly(extra_fields, k, v) == k \in DOMAIN extra_fields /\ extra_fields[k] = v

\* The result of each call, made in the current state.
CreateUserResult(c, salt) ==
    create_user(users, now, c.email, c.password, c.extra_fields, salt)
CreateSuperuserResult(c, salt) ==
    create_superuser(users, now, c.email, c.password, c.extra_fields, salt)
CreationFormResult(data, commit, salt) ==
    CustomUserCreationForm_save(users, now, data, commit, salt)
ChangeFormResult(pk, data) ==
    CustomUserChangeForm_save(users, now, pk, data)

UniqueRows(db) ==
    \A i, j \in 1..Len(db) :
        i # j => db[i].email # db[j].email /\ db[i].phone # db[j].phone

\* C1: the password stored for every persisted user differs from the raw password
\* handed to the call that created it, and check_password of that raw password
\* against the stored value succeeds (a call handed None instead of a password
\* stores an unusable value, against which nothing verifies).
C1_PasswordStoredHashed ==
    \A pk \in Rows :
        /\ users[pk].password # supplied[pk]
        /\ supplied[pk] # None => check_password(supplied[pk], users[pk].password)

C1_Witness ==
    /\ Len(users) >= 2
    /\ outcome.op = "creation_form" /\ outcome.status = "ok" /\ outcome.pk = 2
    /\ supplied[1] = Pw_x /\ supplied[2] = Pw_x
    /\ check_password(Pw_x, users[2].password)
    /\ ~check_password(Pw_y, users[2].password)

\* C2: no two persisted users share an email or a phone; a call that would store an
\* email or a phone another row already holds ends in an error, and every call
\* that ends in an error leaves the table as it was.
\* A result keeps email and phone unique, and a result that is an error keeps the
\* table.
KeepsUnique(r) == UniqueRows(r.db) /\ (r.status # "ok" => r.db = users)

C2_EmailPhoneUnique ==
    /\ UniqueRows(users)
    /\ \A c \in ManagerInputs, salt \in Salts :
        LET r == CreateUserResult(c, salt)
            rs == CreateSuperuserResult(c, salt)
        IN  /\ KeepsUnique(r)
            /\ KeepsUnique(rs)
            /\ ( /\ Truthy(c.email)
                 /\ \/ EmailTaken(users, normalize_email(c.email), 0)
                    \/ PhoneTaken(users, Field(c.extra_fields, "phone", <<>>), 0) )
               => /\ r.status = "IntegrityError"
                  /\ rs.status \in {"IntegrityError", "ValueError"}
    /\ \A d \in CreationInputs, salt \in Salts :
        LET r == CreationFormResult(d, TRUE, salt)
        IN  /\ KeepsUnique(r)
            /\ (EmailTaken(users, d.email, 0) \/ PhoneTaken(users, d.phone, 0))
               => r.status = "invalid"
    /\ \A pk \in Rows, d \in ChangeInputs :
        LET r == ChangeFormResult(pk, d)
        IN  /\ KeepsUnique(r)
            /\ (EmailTaken(users, d.email, pk) \/ PhoneTaken(users, d.phone, pk))
               => r.status = "invalid"

C2_Witness ==
    /\ Len(users) = 2
    /\ outcome.op = "change_form" /\ outcome.status = "invalid"
    /\ outcome.errors = {"email", "phone"}
    /\ users[3 - outcome.args.instance].email = outcome.args.data.email
    /\ users[3 - outcome.args.instance].phone = outcome.args.data.phone

\* C3: every persisted user has a non-empty email and a phone that is 09 followed
\* by nine digits.
C3_EmailAndPhoneWellFormed ==
    \A pk \in Rows : users[pk].email # <<>> /\ RegexValidator(users[pk].phone)

\* C4: create_superuser with an explicit is_staff=False or is_superuser=False raises
\* ValueError and leaves the table as it was, whatever the other arguments.
C4_SuperuserFlagsRejected ==
    \A c \in ManagerInputs, salt \in Salts :
        ( \/ Explicitly(c.extra_fields, "is_staff", FALSE)
          \/ Explicitly(c.extra_fields, "is_superuser", FALSE) )
        => LET r == CreateSuperuserResult(c, salt)
           IN  /\ r.status = "ValueError"
               /\ r.errors \subseteq {"Superuser must have is_staff=True.",
                                      "Superuser must have is_superuser=True."}
               /\ r.db = users

C4_Witness ==
    /\ users # <<>>
    /\ outcome.op = "create_superuser" /\ outcome.status = "ValueError"
    /\ Explicitly(outcome.args.extra_fields, "is_superuser", FALSE)
    /\ Truthy(outcome.args.email)

\* C5: create_user with an empty email raises the "Email must be set" ValueError and
\* leaves the table as it was, whatever the password and the extra fields; so does
\* create_superuser, unless it has already rejected the flags.
C5_EmptyEmailRejected ==
    \A c \in ManagerInputs, salt \in Salts :
        ~Truthy(c.email)
        => LET r == CreateUserResult(c, salt)
               rs == CreateSuperuserResult(c, salt)
           IN  /\ r.status = "ValueError"
               /\ r.errors = {"Email must be set"}
               /\ r.db = users
               /\ rs.status = "ValueError"
               /\ rs.db = users
               /\ ( ~Explicitly(c.extra_fields, "is_staff", FALSE)
                    /\ ~Explicitly(c.extra_fields, "is_superuser", FALSE) )
                  => rs.errors = {"Email must be set"}

C5_Witness ==
    /\ users # <<>>
    /\ outcome.op = "create_user" /\ outcome.status = "ValueError"
    /\ outcome.args.email = <<>>
    /\ outcome.errors = {"Email must be set"}

\* Two emails that differ at most in the letter case of the part after the last "@".
DomainCaseVariant(a, b) ==
    /\ LastAt(a) > 0
    /\ LastAt(b) = LastAt(a)
    /\ Len(a) = Len(b)
    /\ SubSeq(a, 1, LastAt(a)) = SubSeq(b, 1, LastAt(b))
    /\ Lower(a) = Lower(b)

HasLowerDomain(a) == LastAt(a) > 0 /\ a = normalize_email(a)

\* C6 as stated: after a creation that succeeded, no other persisted user holds the
\* new user's email in another (or the same) letter case.
C6_AnyCaseVariantRejected ==
    ( /\ outcome.op \in {"create_user", "create_superuser", "creation_form"}
      /\ outcome.status = "ok"
      /\ outcome.pk > 0 )
    => \A i \in Rows \ {outcome.pk} :
          Lower(users[i].email) # Lower(users[outcome.pk].email)

\* C6 amended: when a persisted user's email has a lower-case domain (as every email
\* stored by create_user and create_superuser has), create_user with the same local
\* part and a domain that differs at most in letter case ends in IntegrityError and
\* stores nothing; so does create_superuser unless it raised ValueError first.
C6_DomainCaseVariantRejected ==
    \A c \in ManagerInputs, salt \in Salts :
        ( /\ Truthy(c.email)
          /\ \E i \in Rows : /\ HasLowerDomain(users[i].email)
                             /\ DomainCaseVariant(users[i].email, c.email) )
        => LET r == CreateUserResult(c, salt)
               rs == CreateSuperuserResult(c, salt)
           IN  /\ r.status = "IntegrityError"
               /\ r.db = users
               /\ rs.status \in {"IntegrityError", "ValueError"}
               /\ rs.db = users

C6_Witness ==
    /\ Len(users) = 1
    /\ users[1].email = Email_ab
    /\ outcome.op = "create_user" /\ outcome.status = "IntegrityError"
    /\ outcome.args.email = Email_aB
    /\ ~PhoneTaken(users, outcome.args.extra_fields.phone, 0)

\* The creation form's data is acceptable apart, possibly, from its phone field.
OtherFieldsValid(d) ==
    (ModelFieldErrors(users, d, 0) \cup PasswordErrors(d)) \ {"phone"} = {}

\* C7 as stated, for the creation form: a submission with phone "0912345678" and
\* valid, unused other fields is saved, and one with phone "12345678901" is not.
C7_ShortPhoneAccepted ==
    outcome.op = "creation_form"
    => /\ ( /\ outcome.args.data.phone = PhoneShort
            /\ outcome.errors \ {"phone"} = {} )
          => outcome.status = "ok"
       /\ outcome.args.data.phone = PhoneNo09 => outcome.status = "invalid"

\* C7 amended: through the creation form, a submission with phone "09123456789" and
\* valid, unused other fields is saved with that phone; one with phone "0912345678"
\* or "12345678901" fails the phone field's validation and stores nothing.
C7_PhonePatternOnForm ==
    \A d \in CreationInputs, salt \in Salts :
        LET r == CreationFormResult(d, TRUE, salt)
        IN  /\ ( /\ d.phone = Phone1
                 /\ OtherFieldsValid(d)
                 /\ ~PhoneTaken(users, d.phone, 0) )
               => /\ r.status = "ok"
                  /\ Len(r.db) = Len(users) + 1
                  /\ r.db[r.pk].phone = d.phone
            /\ d.phone \in {PhoneShort, PhoneNo09}
               => /\ r.status = "invalid"
                  /\ "phone" \in r.errors
                  /\ r.db = users

C7_Witness ==
    /\ outcome.op = "creation_form" /\ outcome.status = "invalid"
    /\ outcome.args.data.phone = PhoneShort
    /\ outcome.args.commit
    /\ outcome.errors = {"phone"}
    /\ \E pk \in Rows : users[pk].phone = Phone1 /\ users[pk].password # <<>>

\* C8: a login of a user sets that user's last_login, and a step that is not a
\* login of a persisted user leaves that user's last_login as it was.
C8_LastLoginOnlyOnLogin ==
    [][ \A pk \in Rows :
            IF outcome'.op = "login" /\ outcome'.status = "ok" /\ outcome'.pk = pk
            THEN users'[pk].last_login = now
            ELSE users'[pk].last_login = users[pk].last_login ]_vars

\* C9: a change-form edit that resubmits the user's email and is saved keeps the
\* number of rows, every other row, the edited row's email and stored password,
\* and the uniqueness of emails.
C9_ChangeFormEditsInPlace ==
    \A pk \in Rows, d \in ChangeInputs :
        LET r == ChangeFormResult(pk, d)
        IN  (d.email = users[pk].email /\ r.status = "ok")
            => /\ Len(r.db) = Len(users)
               /\ \A i \in Rows \ {pk} : r.db[i] = users[i]
               /\ r.db[pk].email = users[pk].email
               /\ r.db[pk].password = users[pk].password
               /\ r.db[pk].name = d.name
               /\ r.db[pk].phone = d.phone
               /\ \A i, j \in 1..Len(r.db) : i # j => r.db[i].email # r.db[j].email

C9_Witness ==
    /\ users # <<>>
    /\ outcome.op = "change_form" /\ outcome.status = "ok"
    /\ users[outcome.pk].name = Name_m
    /\ users[outcome.pk].email = outcome.args.data.email
    /\ users[outcome.pk].phone = Phone2
    /\ users[outcome.pk].last_login > users[outcome.pk].date_joined
    /\ check_password(Pw_x, users[outcome.pk].password)

\* C10: a user returned by create_superuser has is_staff and is_superuser, and
\* is_active unless the caller passed is_active; a user returned by create_user
\* called with none of the three flags has is_active alone.
C10_FlagDefaults ==
    \A c \in ManagerInputs, salt \in Salts :
        /\ LET r == CreateSuperuserResult(c, salt)
           IN  r.status = "ok"
               => /\ r.db[r.pk].is_staff
                  /\ r.db[r.pk].is_superuser
                  /\ "is_active" \notin DOMAIN c.extra_fields => r.db[r.pk].is_active
        /\ LET r == CreateUserResult(c, salt)
           IN  (r.status = "ok" /\ DOMAIN c.extra_fields \cap FlagKeys = {})
               => /\ ~r.db[r.pk].is_staff
                  /\ ~r.db[r.pk].is_superuser
                  /\ r.db[r.pk].is_active

C10_Witness ==
    /\ outcome.op = "create_superuser" /\ outcome.status = "ok"
    /\ DOMAIN outcome.args.extra_fields \cap FlagKeys = {}
    /\ users[outcome.pk].is_staff
    /\ users[outcome.pk].is_superuser
    /\ users[outcome.pk].is_active
    /\ \E pk \in Rows : ~users[pk].is_staff /\ ~users[pk].is_superuser

====
